---- MODULE Spec2Model ----
(***************************************************************************)
(* Model of the execution engine of lightning_flow (src/lightning_flow/    *)
(* core.py): Workflow._make_graph, Workflow._validate_dag and Workflow.run *)
(* over a workflow definition (jobs, tasks, dependency map) drawn from     *)
(* bounded sets.                                                           *)
(*                                                                         *)
(* Tasks are identified by their position in declaration order (job-list   *)
(* order, then position in the job's task list): task 1 is jobs[1][1].     *)
(*                                                                         *)
(* Further specifications: SpecTask (direct calls of Task.run, Job.state), *)
(* SpecJob (the calls that change the task list of a job, Job.run of       *)
(* models/job.py), SpecData (TaskData and its deep copy), SpecFlow (the    *)
(* threaded Workflow of models/workflow.py).                               *)
(***************************************************************************)
EXTENDS Integers, Sequences, FiniteSets, TLC

\* ---------------------------------------------------------------- bounds
MaxJobs == 2      \* jobs of the workflow
MaxTasks == 3     \* tasks of the workflow, all jobs together
MaxDeps == 1      \* entries of the dependency map
MaxListLen == 1   \* tasks in a list given as a dependency value
MaxJobLen == 2    \* tasks of the job on which Task.run and Job.state are called

VARIABLES
    jobs,          \* Workflow._jobs: sequence of jobs, a job is its task list
    dependencies,  \* Workflow._dependencies: key task -> declared value
    raises,        \* per task: which of its callables raises when invoked
    wf_state,      \* Workflow._state
    task_state,    \* Task._state of every task
    err_info,      \* Task._err_info of every task
    task_history,  \* TaskData._task_history of the run's shared TaskData
    calls,         \* sequence of <<task, phase>>: callables invoked so far
    graph,         \* local `graph` of Workflow.run
    pc,            \* position of the caller inside Workflow.run
    exc,           \* exception that left the last Workflow.run call
    skip,          \* Task._skip of every task
    task_call,     \* the last direct call of Task.run and how it ended
    job_state,     \* the last value read from Job.state
    job_class,     \* which Job class the job under mutation is an object of
    job_status,    \* models Job.__status
    job_tasks,     \* models Job.__tasks
    job_tid,       \* models Job.__tid
    job_err_info,  \* models Job.__err_info
    job_calls,     \* tasks that calls of models Job.run invoked, in order
    job_call,      \* the last call made on the job and how it ended
    td_objs,       \* the TaskData objects: where their _data and
                   \* _task_history point to
    dict_objs,     \* the dict objects the TaskData objects hold
    list_objs,     \* the list objects: histories and list values of dicts
    td_copy,       \* the last deepcopy of a TaskData: source and result
    events,        \* what was written to stdout and to the output target
    flow_status,   \* models Workflow.__status
    flow_err_info, \* models Workflow.__err_info
    flow_thread,   \* models Workflow.__thread: the thread created last
    threads        \* the threads start() created: where each one stands

\* The variables only the calls on a task or a job touch.
task_vars == <<skip, task_call, job_state>>

\* The variables of the Job of models/job.py and of the calls that change
\* the task list of a job.
job_vars == <<job_class, job_status, job_tasks, job_tid, job_err_info,
              job_calls, job_call>>

\* The variables of the TaskData objects.
data_vars == <<td_objs, dict_objs, list_objs, td_copy>>

\* The variables of the Workflow of models/workflow.py.
thread_vars == <<flow_status, flow_err_info, flow_thread, threads>>

\* The variables neither Workflow.run of core.py nor a call on a task
\* touches.
other_vars == <<job_vars, data_vars, thread_vars>>

\* The variables of Workflow.run of core.py.
core_vars == <<jobs, dependencies, raises, wf_state, task_state, err_info,
               task_history, calls, graph, pc, exc>>

vars == <<jobs, dependencies, raises, wf_state, task_state, err_info,
          task_history, calls, graph, pc, exc, skip, task_call, job_state,
          other_vars, events>>

\* No call has been made on a job yet.
NoAwait == [kind |-> "none", v |-> 0]
NoJobCall == [op |-> "none", pre |-> "PENDING", await |-> NoAwait,
              exc |-> "none"]

\* models Job.__init__ (models/job.py:4-11)
JobInit ==
    /\ job_status = "PENDING"
    /\ job_tasks = <<>>
    /\ job_tid = -1
    /\ job_err_info = "None"
    /\ job_calls = <<>>
    /\ job_call = NoJobCall

\* ------------------------------------------------------------ TaskData
\* Two TaskData objects: object 1 is the one `TaskData()` creates, object 2
\* comes into being as a copy. Every object that holds a reference is
\* given by where the reference points to: a dict object is named by the
\* TaskData it was created for, a list object by a cell <<o, f>> (f =
\* "hist" for the history list created for TaskData o, a key for a list
\* stored under that key in the dict created for o).
TaskDataObjs == {1, 2}
DataKeys == {"p1"}
DataInts == {1, 2}
HistNames == {1, 2}
ListCells == TaskDataObjs \X (DataKeys \cup {"hist"})
NoCell == <<0, "none">>

\* What a key of a dict holds: nothing, an int, a reference to a list.
Absent == [kind |-> "absent", n |-> 0, cell |-> NoCell]
IntVal(n) == [kind |-> "int", n |-> n, cell |-> NoCell]
ListRef(c) == [kind |-> "list", n |-> 0, cell |-> c]

NoCopy == [src |-> 0, dst |-> 0]

\* TaskData() (core.py:20-29): an empty dict and an empty history.
DataInit ==
    /\ td_objs = [o \in TaskDataObjs |->
                     [exists |-> (o = 1), data |-> o, hist |-> <<o, "hist">>]]
    /\ dict_objs = [o \in TaskDataObjs |-> [k \in DataKeys |-> Absent]]
    /\ list_objs = [c \in ListCells |-> <<>>]
    /\ td_copy = NoCopy

\* --------------------------------------- Workflow (models/workflow.py)
\* Workflow.__init__ (models/workflow.py:15-18)
FlowInit ==
    /\ flow_status = "PENDING"
    /\ flow_err_info = "None"
    /\ flow_thread = 0
    /\ threads = <<>>

\* The objects Workflow.run of core.py and Task.run do not deal with, as
\* constructed, and nothing written yet.
RestInit ==
    /\ DataInit
    /\ FlowInit
    /\ events = <<>>

OtherInit ==
    /\ job_class = "core"
    /\ JobInit
    /\ RestInit

\* ------------------------------------------------------- generic helpers
RECURSIVE SumSeq(_)
SumSeq(s) == IF s = <<>> THEN 0 ELSE Head(s) + SumSeq(Tail(s))

\* Sequences over S of length at most n, in increasing order.
IncSeqsUpTo(S, n) ==
    {s \in UNION {[1..m -> S] : m \in 0..n} :
        \A i \in 1..(Len(s) - 1) : s[i] < s[i + 1]}

\* ------------------------------------------------------ the definition
\* A job list built from the lengths of its jobs; tasks numbered in
\* declaration order.
MkJobs(shape) ==
    [j \in 1..Len(shape) |->
        [i \in 1..shape[j] |-> SumSeq(SubSeq(shape, 1, j - 1)) + i]]

JobShapes ==
    {sh \in UNION {[1..n -> 0..MaxTasks] : n \in 0..MaxJobs} :
        SumSeq(sh) <= MaxTasks}

\* lexicographic = [t for job in self.jobs for t in job]
RECURSIVE Flatten(_)
Flatten(js) == IF js = <<>> THEN <<>> ELSE Head(js) \o Flatten(Tail(js))

lexicographic == Flatten(jobs)

AllTasks(js) == {Flatten(js)[i] : i \in 1..Len(Flatten(js))}

\* Values a dependency map entry can hold: None, one Task, a list of Tasks.
NoneVal == [kind |-> "none", items |-> <<>>]
TaskVal(t) == [kind |-> "task", items |-> <<t>>]
ListVal(s) == [kind |-> "list", items |-> s]

DepValues(T) ==
    {NoneVal} \cup {TaskVal(t) : t \in T}
              \cup {ListVal(s) : s \in IncSeqsUpTo(T, MaxListLen)}

DepMaps(T) ==
    UNION {[K -> DepValues(T)] :
              K \in {S \in SUBSET T : Cardinality(S) <= MaxDeps}}

\* The behaviour of the callables of the tasks: all return, or the setup
\* or the callback of one task raises.
RaiseMaps(T) ==
    {[t \in T |-> "none"]} \cup
    {[t \in T |-> IF t = f THEN ph ELSE "none"] :
        <<f, ph>> \in T \X {"setup", "callback"}}

\* ------------------------------------------------ Workflow._make_graph
\* `if not job` (core.py:368): Job defines __len__ and no __bool__, so a
\* job is falsy exactly when its task list is empty.
\* A test that no Job object satisfies, as `if job is None` would be.
JobIsEmpty_NeverFires(job) == Len(job) < 0

JobIsEmpty(job) == Len(job) = 0

\* for i in range(len(job)-1): schema[job[i]] = [job[i+1]]
\* (core.py:370-371): the pairs (key, child) the in-job loop writes.
ImplicitEdges(js) ==
    UNION {{<<js[j][i], js[j][i + 1]>> : i \in 1..(Len(js[j]) - 1)} :
              j \in 1..Len(js)}

ImplicitParents(js) == {e[1] : e \in ImplicitEdges(js)}

ImplicitChild(js, t) == (CHOOSE e \in ImplicitEdges(js) : e[1] = t)[2]

\* schema[job[i]] = [job[i+1]], then
\* schema.setdefault(k, []).append(v) for every item of the dependency map
\* (core.py:365-375): the declared value is appended as ONE child of k,
\* whatever it is (None, a Task, or a list).
Schema(js, deps) ==
    [p \in ImplicitParents(js) \cup DOMAIN deps |->
        (IF p \in ImplicitParents(js)
            THEN <<TaskVal(ImplicitChild(js, p))>> ELSE <<>>)
        \o (IF p \in DOMAIN deps THEN <<deps[p]>> ELSE <<>>)]

\* core.py:382-396. `children` is always a list here; an empty one becomes
\* [None].
SanitizedSchema(schema) ==
    [p \in DOMAIN schema |->
        IF Len(schema[p]) > 0 THEN schema[p] ELSE <<NoneVal>>]

\* graph.add_edge(parent, child) hashes both ends: a list child raises
\* TypeError (unhashable type: 'list').
Unhashable(child) == child.kind = "list"

\* The (parent, child) pairs the loops of core.py:401-402 visit.
Children(san) ==
    UNION {{<<p, san[p][i]>> : i \in 1..Len(san[p])} : p \in DOMAIN san}

\* core.py:401-406: graph.add_edge(parent, child) for every child that is
\* not None (adding both ends as nodes), graph.add_node(parent) otherwise.
GraphEdges(san) ==
    {<<c[1], c[2].items[1]>> : c \in {d \in Children(san) : d[2].kind = "task"}}

GraphNodes(san) ==
    DOMAIN san \cup {e[2] : e \in GraphEdges(san)}

\* networkx.is_directed_acyclic_graph: repeatedly remove the nodes without
\* predecessor; acyclic iff every node is removed.
RECURSIVE Acyclic(_, _)
Acyclic(N, E) ==
    LET src == {n \in N : ~\E e \in E : e[2] = n /\ e[1] \in N}
    IN  IF N = {} THEN TRUE
        ELSE IF src = {} THEN FALSE
        ELSE Acyclic(N \ src, {e \in E : e[1] \notin src})

\* Workflow._validate_dag (core.py:359-361)
ValidateDag(N, E) ==
    IF Acyclic(N, E) THEN "none" ELSE "DirectedAcyclicGraphInvalid"

NoGraph == [nodes |-> {}, edges |-> {}]

\* `if schema is None` (core.py:377): schema is the dict created at
\* core.py:365 and filled in place, so the test is false for every
\* workflow, the one without jobs and dependencies included.
SchemaIsNone(schema) == FALSE

\* Workflow._make_graph (core.py:363-410): the exception it raises
\* ("none" when it returns) and the graph it returns.
MakeGraph(js, deps) ==
    LET san == SanitizedSchema(Schema(js, deps))
        N   == GraphNodes(san)
        E   == GraphEdges(san)
    IN  IF \E j \in 1..Len(js) : JobIsEmpty(js[j])
            THEN [exc |-> "ValueError: Empty job", graph |-> NoGraph]
        ELSE IF SchemaIsNone(Schema(js, deps))
            THEN [exc |-> "DirectedAcyclicGraphUndefined", graph |-> NoGraph]
        ELSE IF \E c \in Children(san) : Unhashable(c[2])
            THEN [exc |-> "TypeError: unhashable list", graph |-> NoGraph]
        ELSE IF ValidateDag(N, E) # "none"
            THEN [exc |-> ValidateDag(N, E), graph |-> NoGraph]
        ELSE [exc |-> "none", graph |-> [nodes |-> N, edges |-> E]]

\* --------------------------------------------------- TaskContext(...)
\* Parameters TaskContext.__init__ requires (core.py:61) and the keyword
\* arguments Workflow.run passes (core.py:418).
TaskContextParams == {"data", "task_name", "job_name", "workflow_name"}
RunContextArgs == {"data"}

\* Python raises TypeError when a required positional argument is missing.
TaskContextInit(args) ==
    IF TaskContextParams \ args # {} THEN "TypeError: TaskContext arguments"
    ELSE "none"

\* ------------------------------------------------------------- states
TypeOK ==
    /\ wf_state \in {"PENDING", "INPROGRESS", "SUCCESS", "FAILURE"}
    /\ pc \in {"idle", "make_graph", "context", "loop", "raised", "returned"}
    /\ \A t \in DOMAIN task_state :
          task_state[t] \in {"PENDING", "INPROGRESS", "SUCCESS", "FAILURE",
                             "SKIPPED"}

NoCall == [task |-> 0, pre |-> "none", skip |-> FALSE, exc |-> "none"]

\* State after the workflow author has built the definition:
\* Workflow.__init__ (core.py:317-320), Task.__init__ (core.py:128-135).
Init ==
    /\ \E shape \in JobShapes : jobs = MkJobs(shape)
    /\ dependencies \in DepMaps(AllTasks(jobs))
    /\ raises \in RaiseMaps(AllTasks(jobs))
    /\ wf_state = "PENDING"
    /\ task_state = [t \in AllTasks(jobs) |-> "PENDING"]
    /\ err_info = [t \in AllTasks(jobs) |-> "None"]
    /\ task_history = <<>>
    /\ calls = <<>>
    /\ graph = NoGraph
    /\ pc = "idle"
    /\ exc = "none"
    /\ skip = [t \in AllTasks(jobs) |-> FALSE]
    /\ task_call = NoCall
    /\ job_state = "unread"
    /\ OtherInit

\* ------------------------------------------------------- Workflow.run
\* core.py:413: self._state = WorkflowState.INPROGRESS. Nothing guards the
\* call, so run() can be entered again after an earlier call has raised.
RunStart ==
    /\ pc \in {"idle", "raised"}
    /\ wf_state' = "INPROGRESS"
    /\ graph' = NoGraph
    /\ exc' = "none"
    /\ pc' = "make_graph"
    /\ UNCHANGED <<jobs, dependencies, raises, task_state, err_info,
                   task_history, calls, task_vars, other_vars, events>>

\* core.py:414-416: graph = self._make_graph(); an exception of
\* _make_graph leaves run().
RunMakeGraph ==
    /\ pc = "make_graph"
    /\ LET r == MakeGraph(jobs, dependencies)
       IN  IF r.exc # "none"
               THEN /\ exc' = r.exc
                    /\ pc' = "raised"
                    /\ graph' = graph
               ELSE /\ graph' = r.graph
                    /\ pc' = "context"
                    /\ exc' = exc
    /\ UNCHANGED <<jobs, dependencies, raises, wf_state, task_state,
                   err_info, task_history, calls, task_vars, other_vars,
                   events>>

\* ----------------------------------------------------------- Task.run
\* Task.is_pending is declared with @property (core.py:164-166), so
\* `self.is_pending` is already the bool and `self.is_pending()` at
\* core.py:190 calls that bool: Python raises TypeError, whatever the state
\* of the task is.
IsPendingIsProperty == TRUE

CallIsPending(st) ==
    IF IsPendingIsProperty
        THEN [exc |-> "TypeError: 'bool' object is not callable",
              value |-> FALSE]
        ELSE [exc |-> "none", value |-> (st = "PENDING")]

\* The callables core.py:196-204 invokes, in order, for a task of which
\* the callable rs raises ("none": all return). Every task is built with a
\* setup, a callback and a teardown. A raising setup skips the callback;
\* the finally clause invokes teardown in every case.
Phases(rs) ==
    IF rs = "setup" THEN <<"setup", "teardown">>
    ELSE <<"setup", "callback", "teardown">>

\* Task.run (core.py:181-211) on a task in state st with skip flag sk: the
\* exception that leaves the call, the state and error description it
\* leaves behind, the callables it invoked, whether it appended the task to
\* the history. The bare `except` of core.py:205 encloses the finally
\* clause, so it catches what teardown raises too.
TaskRunResult(st, sk, rs) ==
    LET g == CallIsPending(st)
        left(e) == [exc |-> e, state |-> st, err |-> "None",
                    phases |-> <<>>, appended |-> FALSE]
    IN  IF g.exc # "none" THEN left(g.exc)
        ELSE IF ~g.value THEN left("ValueError: not PENDING")
        ELSE IF sk
            THEN [exc |-> "none", state |-> "SKIPPED", err |-> "None",
                  phases |-> <<>>, appended |-> TRUE]
        ELSE IF rs # "none"
            THEN [exc |-> "none", state |-> "FAILURE", err |-> "Traceback",
                  phases |-> Phases(rs), appended |-> TRUE]
        ELSE [exc |-> "none", state |-> "SUCCESS", err |-> "None",
              phases |-> Phases(rs), appended |-> TRUE]

\* ------------------------------------ Workflow.run: context and loop
\* The `state` property of Workflow (core.py:343-345) has no setter, so
\* the assignments `self.state = ...` of core.py:431 and core.py:437 raise
\* AttributeError.
StateHasSetter == FALSE

\* networkx.lexicographical_topological_sort(graph, key) with
\* key = lexicographic.index (core.py:421): of the nodes whose predecessors
\* have all been yielded, the one declared first comes next. Tasks are
\* numbered in declaration order.
RECURSIVE TopologicalSort(_, _)
TopologicalSort(N, E) ==
    LET ready == {n \in N : ~\E e \in E : e[2] = n /\ e[1] \in N}
        m == CHOOSE n \in ready : \A o \in ready : n <= o
    IN  IF N = {} \/ ready = {} THEN <<>>
        ELSE <<m>> \o TopologicalSort(N \ {m}, E)

\* What the run writes: the two print calls of core.py:427 and
\* core.py:429 (to stdout) and utils.output(task.err_info, level='error')
\* of core.py:432 (to the output target).
Progress(idx, total, t) ==
    [kind |-> "progress", task |-> t, idx |-> idx, total |-> total,
     state |-> "none", level |-> "stdout"]
StateLine(t, st) ==
    [kind |-> "state", task |-> t, idx |-> 0, total |-> 0,
     state |-> st, level |-> "stdout"]
ErrorText(t) ==
    [kind |-> "error_text", task |-> t, idx |-> 0, total |-> 0,
     state |-> "none", level |-> "error"]

\* What the run has done when it reaches the loop: a new, empty TaskData
\* (core.py:418) and idx = 0 (core.py:420).
LoopStart ==
    [wf_state |-> wf_state, task_state |-> task_state,
     err_info |-> err_info, task_history |-> <<>>, calls |-> calls,
     events |-> events, idx |-> 0, exc |-> "none"]

\* The loop of core.py:421-437 from position k of the order on, s being
\* what the run has done so far; exc is the exception that leaves run().
RECURSIVE RunLoop(_, _, _, _)
RunLoop(order, total, k, s) ==
    IF k > Len(order)
        THEN IF StateHasSetter THEN [s EXCEPT !.wf_state = "SUCCESS"]
             ELSE [s EXCEPT !.exc = "AttributeError: state has no setter"]
    ELSE IF s.task_state[order[k]] # "PENDING"
        THEN [s EXCEPT !.exc = "ValueError: task not PENDING"]
    ELSE
        LET t  == order[k]
            r  == TaskRunResult(s.task_state[t], skip[t], raises[t])
            s1 == [s EXCEPT !.idx = @ + 1,
                            !.events = Append(@, Progress(s.idx + 1, total, t))]
            s2 == [s1 EXCEPT
                      !.task_state[t] = r.state,
                      !.err_info[t] = IF r.err # "None" THEN r.err ELSE @,
                      !.calls = @ \o [i \in 1..Len(r.phases) |->
                                         <<t, r.phases[i]>>],
                      !.task_history = IF r.appended THEN Append(@, t) ELSE @,
                      !.events = Append(@, StateLine(t, r.state))]
        IN  IF r.exc # "none" THEN [s1 EXCEPT !.exc = r.exc]
            ELSE IF r.state # "FAILURE" THEN RunLoop(order, total, k + 1, s2)
            ELSE IF StateHasSetter
                THEN [s2 EXCEPT !.wf_state = "FAILURE",
                                !.events = Append(@, ErrorText(t))]
            ELSE [s2 EXCEPT !.exc = "AttributeError: state has no setter"]

\* core.py:418-437. context = TaskContext(data=TaskData()) passes one of
\* the four required arguments, so it raises TypeError and run() is left
\* before the loop of core.py:421-437 is entered: that loop, and with it
\* Task.run, add_task_history, the print calls, utils.output and the
\* assignments to self.state, is never executed by Workflow.run, which is
\* why task_state, err_info, task_history, calls and events keep their
\* initial values in every behaviour.
RunContext ==
    /\ pc = "context"
    /\ LET e == TaskContextInit(RunContextArgs)
           s == IF e # "none" THEN [LoopStart EXCEPT !.exc = e,
                                       !.task_history = task_history]
                ELSE RunLoop(TopologicalSort(graph.nodes, graph.edges),
                             Cardinality(graph.nodes), 1, LoopStart)
       IN  /\ exc' = IF s.exc # "none" THEN s.exc ELSE exc
           /\ pc' = IF s.exc # "none" THEN "raised" ELSE "returned"
           /\ wf_state' = s.wf_state
           /\ task_state' = s.task_state
           /\ err_info' = s.err_info
           /\ task_history' = s.task_history
           /\ calls' = s.calls
           /\ events' = s.events
    /\ UNCHANGED <<jobs, dependencies, raises, graph, task_vars, other_vars>>

Next == RunStart \/ RunMakeGraph \/ RunContext

Spec == Init /\ [][Next]_vars

\* ------------------------------------------------- calls of Task.run
\* A direct call task.run(context) with a context whose data is the shared
\* TaskData. The call runs to its end before anything else happens (one
\* control thread).
TaskRun(t) ==
    LET r == TaskRunResult(task_state[t], skip[t], raises[t])
    IN  /\ task_state' = [task_state EXCEPT ![t] = r.state]
        /\ err_info' = [err_info EXCEPT ![t] =
                           IF r.err # "None" THEN r.err ELSE @]
        /\ calls' = calls \o [i \in 1..Len(r.phases) |-> <<t, r.phases[i]>>]
        /\ task_history' = IF r.appended THEN Append(task_history, t)
                           ELSE task_history
        /\ task_call' = [task |-> t, pre |-> task_state[t],
                         skip |-> skip[t], exc |-> r.exc]
        /\ UNCHANGED <<jobs, dependencies, raises, wf_state, graph, pc, exc,
                       skip, job_state, other_vars, events>>

\* Task.skip setter (core.py:160-162)
SetSkip(t, value) ==
    /\ skip[t] # value
    /\ skip' = [skip EXCEPT ![t] = value]
    /\ UNCHANGED <<jobs, dependencies, raises, wf_state, task_state,
                   err_info, task_history, calls, graph, pc, exc,
                   task_call, job_state, other_vars, events>>

\* Job.skip_all (core.py:289-292)
SkipAll(j) ==
    /\ \E i \in 1..Len(jobs[j]) : ~skip[jobs[j][i]]
    /\ skip' = [t \in DOMAIN skip |->
                   IF \E i \in 1..Len(jobs[j]) : jobs[j][i] = t
                       THEN TRUE ELSE skip[t]]
    /\ UNCHANGED <<jobs, dependencies, raises, wf_state, task_state,
                   err_info, task_history, calls, graph, pc, exc,
                   task_call, job_state, other_vars, events>>

\* ---------------------------------------------------------- Job.state
\* A variant that looks for a PENDING task before it looks for a FAILURE.
JobStateOf_PausedFirst(S) ==
    IF S = {} \/ S = {"PENDING"} THEN "PENDING"
    ELSE IF "INPROGRESS" \in S THEN "INPROGRESS"
    ELSE IF "PENDING" \in S THEN "PAUSED"
    ELSE IF "FAILURE" \in S THEN "FAILURE"
    ELSE IF S = {"SKIPPED"} THEN "SKIPPED"
    ELSE "SUCCESS"

\* Job.state (core.py:267-282) for the set S of the states of its tasks.
JobStateOf(S) ==
    IF S = {} \/ S = {"PENDING"} THEN "PENDING"
    ELSE IF "INPROGRESS" \in S THEN "INPROGRESS"
    ELSE IF "FAILURE" \in S THEN "FAILURE"
    ELSE IF S = {"SKIPPED"} THEN "SKIPPED"
    ELSE IF "PENDING" \in S THEN "PAUSED"
    ELSE "SUCCESS"

\* task_states = {task.state for task in self.tasks} (core.py:270)
TaskStatesOf(j) == {task_state[jobs[j][i]] : i \in 1..Len(jobs[j])}

\* A read of job.state.
ReadJobState(j) ==
    /\ job_state' = JobStateOf(TaskStatesOf(j))
    /\ job_state' # job_state
    /\ UNCHANGED <<jobs, dependencies, raises, wf_state, task_state,
                   err_info, task_history, calls, graph, pc, exc,
                   skip, task_call, other_vars, events>>

\* One job with tasks in any of the states of TaskState (core.py:84-91),
\* whose callables all return or of which one raises, and the calls a
\* caller can make on the job and on its tasks.
TaskStates == {"PENDING", "INPROGRESS", "SUCCESS", "FAILURE", "SKIPPED"}

CallableMaps(T) ==
    RaiseMaps(T) \cup {[t \in T |-> IF t = f THEN "teardown" ELSE "none"] :
                          f \in T}

InitTask ==
    /\ \E n \in 0..MaxJobLen : jobs = MkJobs(<<n>>)
    /\ dependencies = <<>>
    /\ raises \in CallableMaps(AllTasks(jobs))
    /\ wf_state = "PENDING"
    /\ task_state \in [AllTasks(jobs) -> TaskStates]
    /\ err_info = [t \in AllTasks(jobs) |-> "None"]
    /\ task_history = <<>>
    /\ calls = <<>>
    /\ graph = NoGraph
    /\ pc = "idle"
    /\ exc = "none"
    /\ skip = [t \in AllTasks(jobs) |-> FALSE]
    /\ task_call = NoCall
    /\ job_state = "unread"
    /\ OtherInit

NextTask ==
    \/ \E t \in AllTasks(jobs) : TaskRun(t)
    \/ \E t \in AllTasks(jobs) : \E value \in BOOLEAN : SetSkip(t, value)
    \/ SkipAll(1)
    \/ ReadJobState(1)

SpecTask == InitTask /\ [][NextTask]_vars

\* ------------------------------------------------- Job (models/job.py)
\* The objects given to the calls on a job: the Task objects 1..MaxJobLen
\* (task t has the name t) and 0, an object that is not a Task.
JobTaskIds == 1..MaxJobLen
NotATask == 0

TaskLists == UNION {[1..n -> JobTaskIds \cup {NotATask}] : n \in 0..MaxJobLen}

\* Values of the parameter await_on of Job.run: None, a Task, the name of
\* a task, an index into the task list.
AwaitValues ==
    {NoAwait} \cup {[kind |-> k, v |-> t] : k \in {"task", "name"},
                                           t \in JobTaskIds}
              \cup {[kind |-> "index", v |-> i] : i \in 0..(MaxJobLen - 1)}

\* all(isinstance(i, Task) for i in _tasks) (models/job.py:50)
AllTasksAreTasks(value) == \A i \in 1..Len(value) : value[i] # NotATask

\* self.status != RunningStatus.PENDING (models/job.py:47, 56)
StatusIsNotPending(st) == st # "PENDING"

\* Job.tasks setter (models/job.py:45-53)
SetTasks(value) ==
    /\ job_class = "models"
    /\ LET e == IF StatusIsNotPending(job_status)
                    THEN "RuntimeError: job started"
                ELSE IF ~AllTasksAreTasks(value)
                    THEN "TypeError: not Task instances"
                ELSE "none"
       IN  /\ job_tasks' = IF e = "none" THEN value ELSE job_tasks
           /\ job_call' = [op |-> "set_tasks", pre |-> job_status,
                           await |-> NoAwait, exc |-> e]
    /\ UNCHANGED <<jobs, dependencies, raises, wf_state, task_state,
                   err_info, task_history, calls, graph, pc, exc, task_vars,
                   job_class, job_status, job_tid, job_err_info, job_calls,
                   data_vars, thread_vars, events>>

\* Job.append_task (models/job.py:55-60)
AppendTask(task) ==
    /\ job_class = "models"
    /\ Len(job_tasks) < MaxJobLen
    /\ LET e == IF StatusIsNotPending(job_status)
                    THEN "RuntimeError: job started"
                ELSE IF task = NotATask THEN "TypeError: not a Task"
                ELSE "none"
       IN  /\ job_tasks' = IF e = "none" THEN Append(job_tasks, task)
                           ELSE job_tasks
           /\ job_call' = [op |-> "append_task", pre |-> job_status,
                           await |-> NoAwait, exc |-> e]
    /\ UNCHANGED <<jobs, dependencies, raises, wf_state, task_state,
                   err_info, task_history, calls, graph, pc, exc, task_vars,
                   job_class, job_status, job_tid, job_err_info, job_calls,
                   data_vars, thread_vars, events>>

\* models/task.py defines no __call__ on Task, so `task()` at
\* models/job.py:70 raises TypeError ('Task' object is not callable).
TaskIsCallable == FALSE

\* The class defines the properties name, status, tasks and tid
\* (models/job.py:29-43) and no err_info, and the attribute set at
\* models/job.py:11 is stored under the mangled name _Job__err_info: the
\* read `self.err_info` at models/job.py:78 raises AttributeError.
JobHasErrInfo == FALSE

\* await_on == task or await_on == task.name or await_on == self.tid
\* (models/job.py:71)
AwaitMatches(await_on, task, tid) ==
    \/ await_on.kind = "task" /\ await_on.v = task
    \/ await_on.kind = "name" /\ await_on.v = task
    \/ await_on.kind = "index" /\ await_on.v = tid

\* The loop test of models/job.py:67.
LoopTest(tid, tasks) == tid < Len(tasks)

\* The while loop of models/job.py:67-74 from index tid on: how it ends
\* ("exhausted": the test failed and the else clause ran, "break", or
\* "raised" with the exception), the index it leaves in __tid and the tasks
\* it invoked. tid is the index of Python, which counts from 0:
\* self.tasks[tid] is tasks[tid + 1] here, and it raises IndexError when
\* tid is not below the length.
RECURSIVE JobRunLoop(_, _, _, _)
JobRunLoop(tasks, tid, await_on, invoked) ==
    IF ~LoopTest(tid, tasks)
        THEN [end |-> "exhausted", tid |-> tid, invoked |-> invoked,
              exc |-> "none"]
    ELSE IF tid + 1 >= Len(tasks)
        THEN [end |-> "raised", tid |-> tid + 1, invoked |-> invoked,
              exc |-> "IndexError: tuple index out of range"]
    ELSE IF ~TaskIsCallable
        THEN [end |-> "raised", tid |-> tid + 1, invoked |-> invoked,
              exc |-> "TypeError: 'Task' object is not callable"]
    ELSE IF AwaitMatches(await_on, tasks[tid + 2], tid + 1)
        THEN [end |-> "break", tid |-> tid + 1,
              invoked |-> Append(invoked, tasks[tid + 2]), exc |-> "none"]
    ELSE JobRunLoop(tasks, tid + 1, await_on,
                    Append(invoked, tasks[tid + 2]))

\* Job.run (models/job.py:62-83). The call runs to its end before anything
\* else happens (one control thread).
JobRun(await_on) ==
    /\ job_class = "models"
    /\ IF job_status \notin {"PENDING", "INPROGRESS"}
           THEN /\ job_call' = [op |-> "run", pre |-> job_status,
                                await |-> await_on,
                                exc |-> "ValueError: could not run"]
                /\ UNCHANGED <<job_status, job_tid, job_err_info, job_calls>>
           ELSE LET r == JobRunLoop(job_tasks, job_tid, await_on, <<>>)
                IN  /\ job_tid' = r.tid
                    /\ job_calls' = job_calls \o r.invoked
                    /\ IF r.end = "raised"
                           THEN /\ job_err_info' = r.exc
                                /\ job_status' = "FAILURE"
                                /\ job_call' =
                                     [op |-> "run", pre |-> job_status,
                                      await |-> await_on,
                                      exc |-> IF JobHasErrInfo THEN "none"
                                              ELSE "AttributeError: err_info"]
                           ELSE /\ job_err_info' = job_err_info
                                /\ job_status' =
                                     IF r.tid >= Len(job_tasks) - 1
                                         THEN "SUCCESS" ELSE "PAUSED"
                                /\ job_call' =
                                     [op |-> "run", pre |-> job_status,
                                      await |-> await_on, exc |-> "none"]
    /\ UNCHANGED <<jobs, dependencies, raises, wf_state, task_state,
                   err_info, task_history, calls, graph, pc, exc, task_vars,
                   job_class, job_tasks, data_vars, thread_vars, events>>

\* ---------------------------------------------------- Job (core.py)
\* Job.tasks of core.py returns the list object the job holds
\* (core.py:284-287), and the property has no setter: `job.tasks = value`
\* raises AttributeError, whatever the state of the job is.
CoreSetTasks ==
    /\ job_class = "core"
    /\ job_call' = [op |-> "set_tasks", pre |-> JobStateOf(TaskStatesOf(1)),
                    await |-> NoAwait,
                    exc |-> "AttributeError: no setter"]
    /\ job_call' # job_call
    /\ UNCHANGED <<jobs, dependencies, raises, wf_state, task_state,
                   err_info, task_history, calls, graph, pc, exc, task_vars,
                   job_class, job_status, job_tasks, job_tid, job_err_info,
                   job_calls, data_vars, thread_vars, events>>

\* `job.tasks.append(task)`: the list returned by the property is the
\* job's own list, so list.append changes the task list of the job; no
\* code of the class stands in between. The appended Task is a new object,
\* PENDING and not to be skipped (core.py:128-135).
CoreTasksAppend ==
    /\ job_class = "core"
    /\ Len(jobs[1]) < MaxJobLen
    /\ LET t == Len(jobs[1]) + 1
       IN  /\ jobs' = <<Append(jobs[1], t)>>
           /\ task_state' = [u \in DOMAIN task_state \cup {t} |->
                                IF u = t THEN "PENDING" ELSE task_state[u]]
           /\ err_info' = [u \in DOMAIN err_info \cup {t} |->
                              IF u = t THEN "None" ELSE err_info[u]]
           /\ raises' = [u \in DOMAIN raises \cup {t} |->
                            IF u = t THEN "none" ELSE raises[u]]
           /\ skip' = [u \in DOMAIN skip \cup {t} |->
                          IF u = t THEN FALSE ELSE skip[u]]
    /\ job_call' = [op |-> "append_task", pre |-> JobStateOf(TaskStatesOf(1)),
                    await |-> NoAwait, exc |-> "none"]
    /\ UNCHANGED <<dependencies, wf_state, task_history, calls, graph, pc,
                   exc, task_call, job_state, job_class, job_status,
                   job_tasks, job_tid, job_err_info, job_calls, data_vars,
                   thread_vars, events>>

\* A job of either class and the calls a caller can make on it: a job of
\* models/job.py as constructed, or a job of core.py with tasks in any of
\* the states of TaskState.
InitJob ==
    /\ job_class \in {"core", "models"}
    /\ JobInit
    /\ RestInit
    /\ \E n \in 0..MaxJobLen :
          jobs = MkJobs(<<IF job_class = "core" THEN n ELSE 0>>)
    /\ dependencies = <<>>
    /\ raises = [t \in AllTasks(jobs) |-> "none"]
    /\ wf_state = "PENDING"
    /\ task_state \in [AllTasks(jobs) -> TaskStates]
    /\ err_info = [t \in AllTasks(jobs) |-> "None"]
    /\ task_history = <<>>
    /\ calls = <<>>
    /\ graph = NoGraph
    /\ pc = "idle"
    /\ exc = "none"
    /\ skip = [t \in AllTasks(jobs) |-> FALSE]
    /\ task_call = NoCall
    /\ job_state = "unread"

NextJob ==
    \/ \E value \in TaskLists : SetTasks(value)
    \/ \E task \in JobTaskIds \cup {NotATask} : AppendTask(task)
    \/ \E await_on \in AwaitValues : JobRun(await_on)
    \/ CoreSetTasks
    \/ CoreTasksAppend

SpecJob == InitJob /\ [][NextJob]_vars

\* --------------------------------------------- TaskData (core.py:15-55)
MaxHist == 2      \* entries of a history list
MaxItems == 1     \* items of a list stored in a dict

TheDict(o) == dict_objs[td_objs[o].data]

\* TaskData.task_history (core.py:42-45) and the contents of TaskData.data
\* (core.py:38-40), lists stored in the dict given by their items.
History(o) == list_objs[td_objs[o].hist]

Mapping(o) ==
    [k \in DataKeys |->
        [kind |-> TheDict(o)[k].kind, n |-> TheDict(o)[k].n,
         items |-> IF TheDict(o)[k].kind = "list"
                       THEN list_objs[TheDict(o)[k].cell] ELSE <<>>]]

\* TaskData.add_task_history (core.py:31-36)
AddTaskHistory(o, task_name) ==
    /\ td_objs[o].exists
    /\ Len(History(o)) < MaxHist
    /\ list_objs' = [list_objs EXCEPT ![td_objs[o].hist] =
                        Append(@, task_name)]
    /\ UNCHANGED <<core_vars, task_vars, job_vars, thread_vars, events,
                   td_objs, dict_objs, td_copy>>

\* data[key] = n: UserDict.__setitem__ writes self.data[key], and
\* self.data is the property that returns self._data (core.py:38-40). A
\* list the key held before is no longer referenced and is dropped.
SetItem(o, key, n) ==
    /\ td_objs[o].exists
    /\ TheDict(o)[key] # IntVal(n)
    /\ dict_objs' = [dict_objs EXCEPT ![td_objs[o].data][key] = IntVal(n)]
    /\ list_objs' = IF TheDict(o)[key].kind = "list"
                        THEN [list_objs EXCEPT ![TheDict(o)[key].cell] = <<>>]
                    ELSE list_objs
    /\ UNCHANGED <<core_vars, task_vars, job_vars, thread_vars, events,
                   td_objs, td_copy>>

\* data[key] = []: a new, empty list object is stored under the key.
SetItemList(o, key) ==
    /\ td_objs[o].exists
    /\ TheDict(o)[key].kind # "list"
    /\ dict_objs' = [dict_objs EXCEPT ![td_objs[o].data][key] =
                        ListRef(<<td_objs[o].data, key>>)]
    /\ list_objs' = [list_objs EXCEPT ![<<td_objs[o].data, key>>] = <<>>]
    /\ UNCHANGED <<core_vars, task_vars, job_vars, thread_vars, events,
                   td_objs, td_copy>>

\* data[key].append(n): the list stored under the key is changed in place.
ValueAppend(o, key, n) ==
    /\ td_objs[o].exists
    /\ TheDict(o)[key].kind = "list"
    /\ Len(list_objs[TheDict(o)[key].cell]) < MaxItems
    /\ list_objs' = [list_objs EXCEPT ![TheDict(o)[key].cell] = Append(@, n)]
    /\ UNCHANGED <<core_vars, task_vars, job_vars, thread_vars, events,
                   td_objs, dict_objs, td_copy>>

\* The history list of the copy is the history list of the original.
CopiedHistory_Shared(src, dst) == td_objs[src].hist

\* task_history=self._task_history[:] (core.py:49), then
\* list(task_history) in __init__ (core.py:29): the copy gets a list object
\* of its own.
CopiedHistory(src, dst) == <<dst, "hist">>

\* deepcopy(self._data, memo) (core.py:48), then dict(data) in __init__
\* (core.py:26): a dict object of its own, in which every list is replaced
\* by a list object of its own.
CopiedData(src, dst) ==
    [k \in DataKeys |->
        IF TheDict(src)[k].kind = "list" THEN ListRef(<<dst, k>>)
        ELSE TheDict(src)[k]]

\* copy.deepcopy(src), of which dst is the result: TaskData.__deepcopy__
\* (core.py:47-49). The new list objects are created with the items of the
\* lists they are copies of.
DeepCopy(src, dst) ==
    /\ td_objs[src].exists
    /\ src # dst
    /\ td_objs' = [td_objs EXCEPT ![dst] =
                      [exists |-> TRUE, data |-> dst,
                       hist |-> CopiedHistory(src, dst)]]
    /\ dict_objs' = [dict_objs EXCEPT ![dst] = CopiedData(src, dst)]
    /\ list_objs' =
          [c \in ListCells |->
              IF c = CopiedHistory(src, dst) THEN History(src)
              ELSE IF c[1] # dst THEN list_objs[c]
              ELSE IF c[2] \in DataKeys /\ TheDict(src)[c[2]].kind = "list"
                  THEN list_objs[TheDict(src)[c[2]].cell]
              ELSE <<>>]
    /\ td_copy' = [src |-> src, dst |-> dst]
    /\ UNCHANGED <<core_vars, task_vars, job_vars, thread_vars, events>>

\* Every object as constructed, the Workflow of core.py without jobs.
InitEmpty ==
    /\ jobs = <<>>
    /\ dependencies = <<>>
    /\ raises = <<>>
    /\ wf_state = "PENDING"
    /\ task_state = <<>>
    /\ err_info = <<>>
    /\ task_history = <<>>
    /\ calls = <<>>
    /\ graph = NoGraph
    /\ pc = "idle"
    /\ exc = "none"
    /\ skip = <<>>
    /\ task_call = NoCall
    /\ job_state = "unread"
    /\ OtherInit

\* A TaskData as the run creates it, the writes a task can make on a
\* TaskData it holds, and deep copies in both directions.
InitData == InitEmpty

NextData ==
    \/ \E o \in TaskDataObjs : \E task_name \in HistNames :
          AddTaskHistory(o, task_name)
    \/ \E o \in TaskDataObjs : \E key \in DataKeys : \E n \in DataInts :
          SetItem(o, key, n)
    \/ \E o \in TaskDataObjs : \E key \in DataKeys : SetItemList(o, key)
    \/ \E o \in TaskDataObjs : \E key \in DataKeys : ValueAppend(o, key, 1)
    \/ \E src, dst \in TaskDataObjs : DeepCopy(src, dst)

SpecData == InitData /\ [][NextData]_vars

\* --------------------------------------- Workflow (models/workflow.py)
MaxStarts == 2    \* calls of start()

\* Where a thread created by start() stands in _lifecycle
\* (models/workflow.py:40-49): "begin" before line 41, "call" before the
\* call of run() at line 43, "body" inside run(), "except" before line 45,
\* "err_info" before line 46, "output" before line 47, "else" before line
\* 49, "done" after the return.
ThreadPcs ==
    {"begin", "call", "body", "except", "err_info", "output", "else", "done"}

At(th, where) == th \in 1..Len(threads) /\ threads[th].pc = where

Goto(th, where) == threads' = [threads EXCEPT ![th].pc = where]

\* Workflow.start (models/workflow.py:51-53): every call creates a Thread
\* whose target is _lifecycle and starts it; nothing is tested before.
Start ==
    /\ Len(threads) < MaxStarts
    /\ threads' = Append(threads, [pc |-> "begin", raised |-> FALSE])
    /\ flow_thread' = Len(threads) + 1
    /\ UNCHANGED <<core_vars, task_vars, job_vars, data_vars, events,
                   flow_status, flow_err_info>>

\* self.__status = RunningStatus.INPROGRESS (models/workflow.py:41)
LifecycleBegin(th) ==
    /\ At(th, "begin")
    /\ flow_status' = "INPROGRESS"
    /\ Goto(th, "call")
    /\ UNCHANGED <<core_vars, task_vars, job_vars, data_vars, events,
                   flow_err_info, flow_thread>>

\* self.run() (models/workflow.py:43): the thread enters the body of the
\* run method of the subclass.
RunEnter(th) ==
    /\ At(th, "call")
    /\ Goto(th, "body")
    /\ UNCHANGED <<core_vars, task_vars, job_vars, data_vars, events,
                   flow_status, flow_err_info, flow_thread>>

\* run() returns: the else clause is next (models/workflow.py:48).
RunReturns(th) ==
    /\ At(th, "body")
    /\ Goto(th, "else")
    /\ UNCHANGED <<core_vars, task_vars, job_vars, data_vars, events,
                   flow_status, flow_err_info, flow_thread>>

\* run() raises: the except clause is next (models/workflow.py:44).
RunRaises(th) ==
    /\ At(th, "body")
    /\ threads' = [threads EXCEPT ![th] = [pc |-> "except", raised |-> TRUE]]
    /\ UNCHANGED <<core_vars, task_vars, job_vars, data_vars, events,
                   flow_status, flow_err_info, flow_thread>>

\* self.__status = RunningStatus.FAILURE (models/workflow.py:45)
SetFailure(th) ==
    /\ At(th, "except")
    /\ flow_status' = "FAILURE"
    /\ Goto(th, "err_info")
    /\ UNCHANGED <<core_vars, task_vars, job_vars, data_vars, events,
                   flow_err_info, flow_thread>>

\* self.__err_info = get_tb_str() (models/workflow.py:46)
SetErrInfo(th) ==
    /\ At(th, "err_info")
    /\ flow_err_info' = "Traceback"
    /\ Goto(th, "output")
    /\ UNCHANGED <<core_vars, task_vars, job_vars, data_vars, events,
                   flow_status, flow_thread>>

\* output(self.err_info, level='error') (models/workflow.py:47)
OutputErrInfo(th) ==
    /\ At(th, "output")
    /\ events' = Append(events, ErrorText(0))
    /\ Goto(th, "done")
    /\ UNCHANGED <<core_vars, task_vars, job_vars, data_vars,
                   flow_status, flow_err_info, flow_thread>>

\* self.__status = RunningStatus.SUCCESS (models/workflow.py:49)
SetSuccess(th) ==
    /\ At(th, "else")
    /\ flow_status' = "SUCCESS"
    /\ Goto(th, "done")
    /\ UNCHANGED <<core_vars, task_vars, job_vars, data_vars, events,
                   flow_err_info, flow_thread>>

\* A Workflow of models/workflow.py as constructed, the calls of start()
\* and the steps of the threads they create, in any interleaving.
InitFlow == InitEmpty

NextFlow ==
    \/ Start
    \/ \E th \in 1..MaxStarts : LifecycleBegin(th)
    \/ \E th \in 1..MaxStarts : RunEnter(th)
    \/ \E th \in 1..MaxStarts : RunReturns(th)
    \/ \E th \in 1..MaxStarts : RunRaises(th)
    \/ \E th \in 1..MaxStarts : SetFailure(th)
    \/ \E th \in 1..MaxStarts : SetErrInfo(th)
    \/ \E th \in 1..MaxStarts : OutputErrInfo(th)
    \/ \E th \in 1..MaxStarts : SetSuccess(th)

SpecFlow == InitFlow /\ [][NextFlow]_vars

\* ====================================================================
\* What the claims speak about
\* ====================================================================
Tasks == AllTasks(jobs)

\* The run has been left (the model has no normal return: see RunContext).
RunEnded == pc = "raised"

\* Task.run has been executed for u and later for v.
Before(u, v) ==
    \E i, j \in 1..Len(task_history) :
        i < j /\ task_history[i] = u /\ task_history[j] = v

TimesRun(t) == Cardinality({i \in 1..Len(task_history) : task_history[i] = t})

\* The pairs (k, v) of the dependency map: v a single Task or a member of
\* the collection given as the value of k.
DepPairs ==
    UNION {{<<k, dependencies[k].items[i]>> :
               i \in 1..Len(dependencies[k].items)} : k \in DOMAIN dependencies}

\* The graph the specification describes: job[i] -> job[i+1], and v -> k
\* for every pair (k, v) of the dependency map.
DeclaredEdges == ImplicitEdges(jobs) \cup {<<p[2], p[1]>> : p \in DepPairs}

HasEmptyJob == \E j \in 1..Len(jobs) : Len(jobs[j]) = 0

\* A definition the specification accepts: at least one task, no empty
\* job, no cycle.
WellDefined ==
    /\ Tasks # {}
    /\ ~HasEmptyJob
    /\ Acyclic(Tasks, DeclaredEdges)

NoRaising == \A t \in Tasks : raises[t] = "none"

\* u reaches v in the declared graph.
RECURSIVE ReachFrom(_, _)
ReachFrom(S, E) ==
    LET nxt == S \cup {e[2] : e \in {d \in E : d[1] \in S}}
    IN  IF nxt = S THEN S ELSE ReachFrom(nxt, E)

Path(u, v) == v \in ReachFrom({w \in Tasks : <<u, w>> \in DeclaredEdges},
                              DeclaredEdges)

\* The lexicographically smallest topological order with respect to
\* declaration order: repeatedly pick the earliest declared task whose
\* predecessors have all been picked.
RECURSIVE LexTopo(_, _)
LexTopo(N, E) ==
    LET ready == {n \in N : ~\E e \in E : e[2] = n /\ e[1] \in N}
        m == CHOOSE n \in ready : \A o \in ready : n <= o
    IN  IF N = {} \/ ready = {} THEN <<>>
        ELSE <<m>> \o LexTopo(N \ {m}, E)

DeclaredOrder == LexTopo(Tasks, DeclaredEdges)

\* Position of the first task of the declared order whose setup or
\* callback raises (0 when there is none).
FirstRaising ==
    LET R == {i \in 1..Len(DeclaredOrder) : raises[DeclaredOrder[i]] # "none"}
    IN  IF R = {} THEN 0 ELSE CHOOSE i \in R : \A o \in R : i <= o

Invoked(t) == \E i \in 1..Len(calls) : calls[i][1] = t

\* ====================================================================
\* Claims
\* ====================================================================

\* C1: for every key k and every value v of the dependency map (a single
\* Task or a member of the collection given as the value), a run of a well
\* defined workflow without failing task executes v before it executes k.
C1_ValueRunsBeforeKey ==
    (RunEnded /\ WellDefined /\ NoRaising) =>
        \A p \in DepPairs : Before(p[2], p[1])

\* C2: in a run of a well defined workflow without failing task, job[i] is
\* executed before job[i+1] for every job and every i, and the execution
\* order is a topological order of the merged graph.
C2_TopologicalOrder ==
    (RunEnded /\ WellDefined /\ NoRaising) =>
        /\ \A e \in ImplicitEdges(jobs) : Before(e[1], e[2])
        /\ \A e \in DeclaredEdges : Before(e[1], e[2])
        /\ \A t \in Tasks : TimesRun(t) = 1

\* C3: every task of every job is a node of the graph that _make_graph
\* returns, a task that appears in no edge included, and a run in which no
\* task fails executes every task exactly once.
C3_EveryTaskOnce ==
    /\ (pc = "context" /\ WellDefined) => Tasks \subseteq graph.nodes
    /\ (RunEnded /\ WellDefined /\ NoRaising) =>
           (Len(task_history) = Cardinality(Tasks)
               /\ \A t \in Tasks : TimesRun(t) = 1)

\* C4: of two tasks with no path between them in either direction, the run
\* executes the one declared earlier first.
C4_DeclarationTieBreak ==
    (RunEnded /\ WellDefined /\ NoRaising) =>
        \A u, v \in Tasks :
            (u < v /\ ~Path(u, v) /\ ~Path(v, u)) => Before(u, v)

\* C5: the execution order of a run is the lexicographically smallest
\* topological order of the graph with respect to declaration order.
C5_LexSmallestOrder ==
    (RunEnded /\ WellDefined /\ NoRaising) => task_history = DeclaredOrder

C7_WorkflowState ==
    /\ pc = "idle" => wf_state = "PENDING"
    /\ pc \in {"make_graph", "context", "loop"} => wf_state = "INPROGRESS"
    /\ (RunEnded /\ WellDefined /\ FirstRaising > 0) => wf_state = "FAILURE"
    /\ (RunEnded /\ WellDefined /\ NoRaising) => wf_state = "SUCCESS"
    /\ wf_state = "SUCCESS" => \A t \in Tasks : task_state[t] # "FAILURE"

\* C8: when a task's setup or callback raises during the run, the task ends
\* in FAILURE with its error description captured and no exception leaves
\* Workflow.run.
C8_TaskErrorRecovered ==
    (RunEnded /\ WellDefined /\ FirstRaising > 0) =>
        /\ task_state[DeclaredOrder[FirstRaising]] = "FAILURE"
        /\ err_info[DeclaredOrder[FirstRaising]] # "None"
        /\ exc = "none"

\* C9: when the declared dependencies (each value a single Task) form a
\* cycle with the implicit in-job order, the run ends with the cycle error
\* and every task is still PENDING.
C9_CycleRejected ==
    (/\ RunEnded
     /\ ~HasEmptyJob
     /\ \A k \in DOMAIN dependencies : dependencies[k].kind # "list"
     /\ ~Acyclic(Tasks, DeclaredEdges)) =>
        /\ exc = "DirectedAcyclicGraphInvalid"
        /\ \A t \in Tasks : task_state[t] = "PENDING"

\* C10: when a job of the workflow has no task, the run never gets past
\* graph construction, it ends with the empty-job error, every task of the
\* other jobs is still PENDING and the task history is empty, wherever the
\* empty job stands in the job list.
C10_EmptyJobRejected ==
    HasEmptyJob =>
        /\ pc \notin {"context", "loop"}
        /\ RunEnded => exc = "ValueError: Empty job"
        /\ \A t \in Tasks : task_state[t] = "PENDING"
        /\ task_history = <<>>
        /\ calls = <<>>

\* A run that ended on a workflow whose second job is empty while the
\* first one has tasks.
C10_Witness ==
    /\ RunEnded
    /\ exc = "ValueError: Empty job"
    /\ Len(jobs) = 2
    /\ Len(jobs[1]) > 0
    /\ Len(jobs[2]) = 0

\* C11: a run of a workflow with no jobs and no dependencies ends with the
\* graph-undefined error and never as a successful run over zero tasks.
C11_UndefinedGraphRejected ==
    (jobs = <<>> /\ DOMAIN dependencies = {}) =>
        /\ RunEnded => exc = "DirectedAcyclicGraphUndefined"
        /\ pc \notin {"context", "loop"}
        /\ wf_state # "SUCCESS"

\* --------------------------------------------------------------------
\* Calls of Task.run and reads of Job.state
\* --------------------------------------------------------------------
Called == task_call.task # 0

\* The last call of Task.run was made on a PENDING task (without / with
\* the skip flag).
CalledPending == Called /\ task_call.pre = "PENDING"
CalledToRun == CalledPending /\ ~task_call.skip

\* Positions in calls at which phase ph of task t was invoked.
CallsOf(t, ph) == {i \in 1..Len(calls) : calls[i] = <<t, ph>>}

\* The errors the statement of core.py:190-191 can raise.
GuardErrors ==
    {"ValueError: not PENDING", "TypeError: 'bool' object is not callable"}

AllowedTransitions ==
    {<<"PENDING", "SKIPPED">>, <<"PENDING", "INPROGRESS">>,
     <<"INPROGRESS", "SUCCESS">>, <<"INPROGRESS", "FAILURE">>,
     <<"PENDING", "SUCCESS">>, <<"PENDING", "FAILURE">>}

\* C12: the state of a task only changes along PENDING -> SKIPPED,
\* PENDING -> INPROGRESS -> SUCCESS or FAILURE (a whole call of Task.run is
\* one step, so PENDING -> SUCCESS and PENDING -> FAILURE stand for the
\* passage through INPROGRESS); SKIPPED, SUCCESS and FAILURE are terminal;
\* and Task.run on a PENDING task ends with the task in a terminal state.
C12_TaskStateMachine ==
    /\ [][\A t \in DOMAIN task_state :
             task_state'[t] # task_state[t] =>
                 <<task_state[t], task_state'[t]>> \in AllowedTransitions]_vars
    /\ [](CalledPending =>
             task_state[task_call.task] \in {"SKIPPED", "SUCCESS", "FAILURE"})

\* C13: Task.run on a task that is not PENDING ends with an error, invokes
\* no callable, leaves the state of the task alone and appends nothing to
\* the history; Task.run on a PENDING task is not stopped by that error.
C13_NotPendingRejected ==
    /\ [][(task_call' # task_call /\ task_call'.pre # "PENDING") =>
             /\ task_call'.exc # "none"
             /\ calls' = calls
             /\ task_state' = task_state
             /\ task_history' = task_history]_vars
    /\ [](CalledPending => task_call.exc \notin GuardErrors)

\* C14: Task.run on a PENDING task whose skip flag is set leaves the task
\* SKIPPED, invokes none of its callables and appends the task to the
\* history exactly once.
C14_SkipRun ==
    (CalledPending /\ task_call.skip) =>
        /\ task_state[task_call.task] = "SKIPPED"
        /\ ~Invoked(task_call.task)
        /\ TimesRun(task_call.task) = 1

\* C15: a non-skipped Task.run invokes teardown exactly once, after setup
\* and callback, whether setup and callback return or one of them raises.
C15_TeardownAlways ==
    CalledToRun =>
        /\ Cardinality(CallsOf(task_call.task, "teardown")) = 1
        /\ \A i \in CallsOf(task_call.task, "teardown") :
              \A j \in CallsOf(task_call.task, "setup")
                         \cup CallsOf(task_call.task, "callback") : j < i

\* C16: in a non-skipped Task.run whose setup raises the callback is not
\* invoked and the task ends in FAILURE with an error description; a
\* callback is only invoked after the setup of its task.
C16_SetupFailureSkipsCallback ==
    /\ (CalledToRun /\ raises[task_call.task] = "setup") =>
           /\ CallsOf(task_call.task, "callback") = {}
           /\ task_state[task_call.task] = "FAILURE"
           /\ err_info[task_call.task] # "None"
    /\ \A t \in Tasks : \A i \in CallsOf(t, "callback") :
           \E j \in CallsOf(t, "setup") : j < i

\* C17: in a non-skipped Task.run whose setup and callback return and whose
\* teardown raises, the exception of teardown leaves Task.run: it is not
\* recorded in err_info and the task does not become FAILURE.
C17_TeardownErrorNotCaught ==
    (CalledToRun /\ raises[task_call.task] = "teardown") =>
        /\ CallsOf(task_call.task, "teardown") # {}
        /\ task_call.exc = "Exception: teardown"
        /\ err_info[task_call.task] = "None"
        /\ task_state[task_call.task] # "FAILURE"

\* C18: the task history only grows, one entry at a time, never holds a
\* task twice, and after a run in which no task fails its length is the
\* number of nodes of the graph.
C18_HistoryIsExecutionOrder ==
    /\ [][\/ task_history' = task_history
          \/ \E t \in Tasks : task_history' = Append(task_history, t)]_vars
    /\ [](\A t \in Tasks : TimesRun(t) <= 1)
    /\ []((RunEnded /\ WellDefined /\ NoRaising) =>
             Len(task_history) = Cardinality(graph.nodes))

\* C19: Job.state is decided by the set S of the states of the job's tasks:
\* PENDING when S is empty or all PENDING; else INPROGRESS when a task is
\* INPROGRESS; else FAILURE when a task is FAILURE (PENDING tasks left or
\* not); else SKIPPED when all are SKIPPED; else PAUSED when a task is
\* PENDING; else SUCCESS.
C19_JobStatePriority ==
    LET S == TaskStatesOf(1)
    IN  job_state # "unread" =>
        /\ (\A x \in S : x = "PENDING") => job_state = "PENDING"
        /\ "INPROGRESS" \in S => job_state = "INPROGRESS"
        /\ ("INPROGRESS" \notin S /\ "FAILURE" \in S) => job_state = "FAILURE"
        /\ (S # {} /\ \A x \in S : x = "SKIPPED") => job_state = "SKIPPED"
        /\ (/\ S \cap {"INPROGRESS", "FAILURE"} = {}
            /\ "PENDING" \in S
            /\ \E x \in S : x # "PENDING") => job_state = "PAUSED"
        /\ (/\ S # {}
            /\ S \subseteq {"SUCCESS", "SKIPPED"}
            /\ "SUCCESS" \in S) => job_state = "SUCCESS"

\* Job.state has been read on a job with a FAILURE task and a PENDING task.
C19_Witness ==
    /\ job_state = "FAILURE"
    /\ {"FAILURE", "PENDING"} \subseteq TaskStatesOf(1)

\* C20: a call of run() on a workflow that is not PENDING is rejected: the
\* body of run() is not entered and the state of the workflow is not
\* changed.
C20_RerunRejected ==
    [][(pc \in {"idle", "raised"} /\ wf_state # "PENDING") =>
          (pc' \in {"idle", "raised"} /\ wf_state' = wf_state)]_vars

\* --------------------------------------------------------------------
\* Calls on a job
\* --------------------------------------------------------------------
\* The task list of the job and whether the job has left PENDING: the
\* stored status of a job of models/job.py, the state computed from the
\* tasks of a job of core.py.
JobTaskList == IF job_class = "core" THEN jobs[1] ELSE job_tasks

JobLeftPending ==
    IF job_class = "core" THEN JobStateOf(TaskStatesOf(1)) # "PENDING"
    ELSE job_status # "PENDING"

MutationCalls == {"set_tasks", "append_task"}

RanFrom(st) == job_call.op = "run" /\ job_call.pre = st

\* C24: Job.run() without await_on on a PENDING job has invoked every task
\* of the list once, in list order, has not moved the index past the last
\* task, has raised nothing and leaves the job in SUCCESS.
C24_JobRunCompletes ==
    (RanFrom("PENDING") /\ job_call.await = NoAwait) =>
        /\ job_calls = job_tasks
        /\ job_tid <= Len(job_tasks) - 1
        /\ job_call.exc = "none"
        /\ job_status = "SUCCESS"

\* The indexes (counted from 0) of the tasks at which a run with await_on
\* stops.
AwaitedAt(await_on) ==
    {i \in 0..(Len(job_tasks) - 1) :
        AwaitMatches(await_on, job_tasks[i + 1], i)}

\* C25: Job.run(await_on=t) on a PENDING job, t not being the last task,
\* has invoked the tasks up to t and leaves the job PAUSED; and a call of
\* Job.run on a PAUSED job is accepted, and without await_on it leaves the
\* job in SUCCESS with every task invoked once, in list order, over all the
\* calls of Job.run.
C25_ResumeAfterPause ==
    /\ \A i \in AwaitedAt(job_call.await) :
          (/\ RanFrom("PENDING")
           /\ i < Len(job_tasks) - 1
           /\ \A h \in AwaitedAt(job_call.await) : i <= h) =>
              /\ job_status = "PAUSED"
              /\ job_calls = SubSeq(job_tasks, 1, i + 1)
              /\ job_call.exc = "none"
    /\ RanFrom("PAUSED") =>
          /\ job_call.exc = "none"
          /\ job_call.await = NoAwait =>
                (job_status = "SUCCESS" /\ job_calls = job_tasks)

\* --------------------------------------------------------------------
\* Copies of a TaskData
\* --------------------------------------------------------------------
\* A write on TaskData o: add_task_history, a key write, or a change in
\* place of a list stored under a key.
WriteOn(o) ==
    \/ \E task_name \in HistNames : AddTaskHistory(o, task_name)
    \/ \E key \in DataKeys : \E n \in DataInts : SetItem(o, key, n)
    \/ \E key \in DataKeys : SetItemList(o, key)
    \/ \E key \in DataKeys : ValueAppend(o, key, 1)

\* C22: a deep copy of a TaskData has the mapping contents and the history
\* contents of the original, which the copying leaves as they were; and a
\* write on one of the two objects (add_task_history, a key write) changes
\* neither the history nor the mapping of the other one.
C22_DeepCopyIndependent ==
    [][/\ \A src, dst \in TaskDataObjs :
             DeepCopy(src, dst) =>
                 /\ Mapping(dst)' = Mapping(src)
                 /\ History(dst)' = History(src)
                 /\ Mapping(src)' = Mapping(src)
                 /\ History(src)' = History(src)
       /\ \A o \in TaskDataObjs :
             WriteOn(o) =>
                 \A u \in TaskDataObjs \ {o} :
                     /\ Mapping(u)' = Mapping(u)
                     /\ History(u)' = History(u)]_vars

\* Object 2 was made as a deep copy of object 1, whose history and mapping
\* were not empty, and has been written to since: its history is longer
\* and a list of its mapping differs from the list the original holds
\* under the same key.
C22_Witness ==
    /\ td_copy = [src |-> 1, dst |-> 2]
    /\ Len(History(1)) > 0
    /\ Len(History(2)) > Len(History(1))
    /\ \E key \in DataKeys :
          /\ Mapping(1)[key].kind = "list"
          /\ Mapping(2)[key].kind = "list"
          /\ Mapping(1)[key].items # Mapping(2)[key].items

\* --------------------------------------------------------------------
\* What the run writes
\* --------------------------------------------------------------------
\* run() has been left, by an exception or by its return.
RunOver == pc \in {"raised", "returned"}

\* C23: after a run of a well defined workflow in which a task fails, what
\* the run wrote holds, in this order, the progress report of the failed
\* task (its index, the number of tasks, then its state FAILURE) and the
\* error text of the task at level 'error'; the error text is the last
\* thing the run wrote, as the run stops there.
C23_FailureEventOrder ==
    (RunOver /\ WellDefined /\ FirstRaising > 0) =>
        LET f == DeclaredOrder[FirstRaising]
        IN  \E i, j, k \in 1..Len(events) :
                /\ i < j /\ j < k
                /\ events[i] = Progress(FirstRaising, Cardinality(Tasks), f)
                /\ events[j] = StateLine(f, "FAILURE")
                /\ events[k] = ErrorText(f)
                /\ k = Len(events)

\* --------------------------------------------------------------------
\* The threaded Workflow
\* --------------------------------------------------------------------
\* The threads that have entered the body of run(), and those inside it.
EnteredRun ==
    {th \in 1..Len(threads) : threads[th].pc \notin {"begin", "call"}}

InsideRun == {th \in 1..Len(threads) : threads[th].pc = "body"}

AllDone ==
    /\ threads # <<>>
    /\ \A th \in 1..Len(threads) : threads[th].pc = "done"

StatusTransitions ==
    {<<"PENDING", "INPROGRESS">>, <<"INPROGRESS", "SUCCESS">>,
     <<"INPROGRESS", "FAILURE">>}

\* C26: whatever the number of calls of start(), at most one thread ever
\* enters the body of run() and no two threads are inside it together; the
\* status only moves PENDING -> INPROGRESS -> SUCCESS or FAILURE, never
\* from SUCCESS or FAILURE back to INPROGRESS; and once every thread has
\* ended the status is FAILURE exactly when run() raised, with err_info
\* set then.
C26_RunsOnce ==
    /\ [](Cardinality(EnteredRun) <= 1 /\ Cardinality(InsideRun) <= 1)
    /\ [][flow_status' # flow_status =>
             <<flow_status, flow_status'>> \in StatusTransitions]_vars
    /\ [](AllDone =>
             /\ flow_status \in {"SUCCESS", "FAILURE"}
             /\ flow_status = "FAILURE" <=>
                    \E th \in 1..Len(threads) : threads[th].raised
             /\ flow_status = "FAILURE" => flow_err_info # "None")

====
